---- MODULE Spec2Model ----
\* Model of the SPI Adapter firmware (firmware/platformio/src/main.cpp):
\* the tick-driven command dispatcher in loop(), the frame accumulator
\* read_serial_bytes() and the six command handlers.
EXTENDS Integers, Sequences, FiniteSets, TLC

\* ---------------------------------------------------------------------
\* Program constants.
kNumCsPins == 4
kNumAuxPins == 8
kApiVersion == 1
kFirmwareVersion == 1
kMaxTransactionBytes == 256
kCommandTimeoutMillis == 250
kLedActiveMillis == 200
kLedBlinkMask == 2044
kSetupDelayMillis == 500

SPI_MODE0 == 0
SPI_MODE1 == 1

NULL == "NULL"
Handlers == {"ECHO", "INFO", "AUX_MODE", "AUX_READ", "AUX_WRITE", "SEND"}

\* ASCII codes of the protocol characters.
ChE == 69
ChI == 73
ChK == 75
ChP == 80
ChS == 83
Ch_a == 97
Ch_b == 98
Ch_e == 101
Ch_i == 105
Ch_m == 109
Ch_s == 115
Selectors == {Ch_e, Ch_i, Ch_m, Ch_a, Ch_b, Ch_s}

Byte == 0 .. 255

\* ---------------------------------------------------------------------
\* Fixed-width arithmetic.
Pow16 == 65536

U16(x) == x % Pow16

U8(x) == x % 256

RECURSIVE BitAnd(_, _)
BitAnd(a, b) ==
  IF a = 0 \/ b = 0 THEN 0
  ELSE (a % 2) * (b % 2) + 2 * BitAnd(a \div 2, b \div 2)

Min(a, b) == IF a < b THEN a ELSE b

Max(a, b) == IF a > b THEN a ELSE b

\* A uint32_t is kept as its two 16-bit halves, so that the arithmetic is
\* exactly modulo 2^32.
U32(h, l) == [hi |-> h, lo |-> l]

Add32(a, n) ==
  LET s == a.lo + n
  IN  U32((a.hi + (s \div Pow16)) % Pow16, s % Pow16)

Sub32(a, b) ==
  LET d == a.lo - b.lo
      borrow == IF d < 0 THEN 1 ELSE 0
  IN  U32((a.hi - b.hi - borrow) % Pow16, d % Pow16)

\* a > n and a < n for a uint32_t a and a constant n < 2^16.
Gt32(a, n) == a.hi > 0 \/ a.lo > n

Lt32(a, n) == a.hi = 0 /\ a.lo < n

\* ---------------------------------------------------------------------
\* Bounds of the model.

\* Number of command frames the host sends in one run of Spec.
MaxFrames == 2
\* Number of payload bytes the host sends after a SEND header in SpecSend.
MaxPayload == 2
\* Number of times the host repeats an ECHO in SpecEcho.
EchoRepeats == 2
\* The millisecond clock is followed for this long after power-up.
MaxUptimeMillis == 750
\* Amounts by which millis() advances between two readings.
MillisSteps == {250, 251}
\* Replies of the SPI peripheral: data looped back, or a floating MISO line.
Peripherals == {"loopback", "ones"}

VARIABLES
  pc,              \* "setup" before setup() has run, "loop" afterwards
  millis,
  clock,           \* time since power-up and how the clock is followed          \* the millisecond counter millis(), uint32_t
  serial_wire,     \* packets the host has sent that have not arrived yet
  serial_rx,       \* bytes waiting in Serial (Serial.available())
  aux_in,          \* levels driven on the aux lines from outside, bit i = pin i
  current_cmd,
  cmd_timer,       \* Timer::_start_millis
  data_buffer,
  data_size,
  send,            \* the fields of send_cmd_handler
  last_spi_mode,
  last_led_state,
  led,             \* the state last given to led.update()
  cs_level,        \* level of the four chip-select lines
  aux_mode,        \* pinMode of the eight aux lines
  aux_out,         \* output latch of the eight aux lines
  obs_tick,        \* what the last run of setup()/loop() did
  obs_cmd          \* what the last admitted command read and wrote

vars == <<pc, millis, clock, serial_wire, serial_rx, aux_in, current_cmd,
          cmd_timer,
          data_buffer, data_size, send, last_spi_mode, last_led_state, led,
          cs_level, aux_mode, aux_out, obs_tick, obs_cmd>>

\* ---------------------------------------------------------------------
\* Hardware events recorded in obs_tick.hw.
HwEvent(o, a, t, r) == [op |-> o, arg |-> a, tx |-> t, rx |-> r]

HwOp(o, a) == HwEvent(o, a, <<>>, <<>>)

\* ---------------------------------------------------------------------
track_spi_clock_polarity_forgets(new_spi_mode, last) ==
  IF new_spi_mode = last
  THEN [hw |-> <<>>, last_spi_mode |-> last]
  ELSE [hw |-> <<HwOp("dummy_transfer", new_spi_mode)>>,
        last_spi_mode |-> last]

\* track_spi_clock_polarity: the dummy transfer and the new last_spi_mode.
track_spi_clock_polarity(new_spi_mode, last) ==
  IF new_spi_mode = last
  THEN [hw |-> <<>>, last_spi_mode |-> last]
  ELSE [hw |-> <<HwOp("dummy_transfer", new_spi_mode)>>,
        last_spi_mode |-> new_spi_mode]

\* Timer
TimerResetStale(millis_now) == cmd_timer

TimerReset(millis_now) == millis_now

elapsed_millis_no_wrap(millis_now, start_millis) ==
  IF \/ millis_now.hi < start_millis.hi
     \/ millis_now.hi = start_millis.hi /\ millis_now.lo < start_millis.lo
  THEN U32(0, 0)
  ELSE Sub32(millis_now, start_millis)

elapsed_millis(millis_now, start_millis) == Sub32(millis_now, start_millis)

all_cs_off == [i \in 0 .. kNumCsPins - 1 |-> "HIGH"]

cs_on(cs_index, levels) ==
  IF cs_index < kNumCsPins
  THEN [levels EXCEPT ![cs_index] = "LOW"]
  ELSE levels

\* ---------------------------------------------------------------------
\* data_buffer is a zero-initialised array of kMaxTransactionBytes bytes.
\* It is kept as the sequence of its cells up to the last one ever
\* written; the cells after it still hold their initial 0.
BufGet(buf, i) == IF i < Len(buf) THEN buf[i + 1] ELSE 0

BufPutAtStart(buf, at, bytes) ==
  LET top == Min(Max(Len(buf), Len(bytes)), kMaxTransactionBytes)
  IN  [i \in 1 .. top |->
         IF i - 1 < Len(bytes) THEN bytes[i] ELSE BufGet(buf, i - 1)]

\* The array after bytes has been stored at offset at.
BufPut(buf, at, bytes) ==
  LET top == Min(Max(Len(buf), at + Len(bytes)), kMaxTransactionBytes)
  IN  [i \in 1 .. top |->
         IF i - 1 >= at /\ i - 1 < at + Len(bytes)
         THEN bytes[i - at] ELSE BufGet(buf, i - 1)]

read_serial_bytes_all(n, rxq, buf, size) ==
  LET avail == U16(Len(rxq))
      requested == avail
      newbuf == BufPut(buf, size, SubSeq(rxq, 1, requested))
      newsize == U16(size + requested)
  IN  [rx |-> SubSeq(rxq, requested + 1, Len(rxq)),
       data_buffer |-> newbuf,
       data_size |-> newsize,
       read |-> SubSeq(rxq, 1, requested),
       oob |-> \/ size > n
               \/ requested > 0 /\ size + requested > kMaxTransactionBytes,
       ok |-> newsize >= n]

\* read_serial_bytes(n): moves min(available, n - data_size) bytes from
\* Serial to data_buffer[data_size ...].  A subtraction
\* n - data_size that wraps, or a write past the end of the array, is
\* recorded in oob.
read_serial_bytes(n, rxq, buf, size) ==
  LET avail == U16(Len(rxq))
      required == U16(n - size)
      requested == Min(avail, required)
      newbuf == BufPut(buf, size, SubSeq(rxq, 1, requested))
      newsize == U16(size + requested)
  IN  [rx |-> SubSeq(rxq, requested + 1, Len(rxq)),
       data_buffer |-> newbuf,
       data_size |-> newsize,
       read |-> SubSeq(rxq, 1, requested),
       oob |-> \/ size > n
               \/ requested > 0 /\ size + requested > kMaxTransactionBytes,
       ok |-> newsize >= n]

\* ---------------------------------------------------------------------
\* The outcome of one on_cmd_loop(): the state it leaves and what it did.
StepResult(completed, rxq, buf, size, snd, lastmode, amode, aout, read, out, hw, oob) ==
  [completed |-> completed, rx |-> rxq, data_buffer |-> buf,
   data_size |-> size, send |-> snd, last_spi_mode |-> lastmode,
   aux_mode |-> amode, aux_out |-> aout,
   read |-> read, out |-> out, hw |-> hw, oob |-> oob]

\* A step that read some bytes (or none) and did nothing else.
ReadOnlyStep(completed, r, out) ==
  StepResult(completed, r.rx, r.data_buffer, r.data_size, send,
             last_spi_mode, aux_mode, aux_out, r.read, out, <<>>, r.oob)

\* ECHO
EchoResponseNextCell(buf) == <<BufGet(buf, 1)>>

EchoResponse(buf) == <<BufGet(buf, 0)>>

EchoCommandHandler_on_cmd_loop ==
  LET r == read_serial_bytes(1, serial_rx, data_buffer, data_size)
  IN  IF ~r.ok THEN ReadOnlyStep(FALSE, r, <<>>)
      ELSE ReadOnlyStep(TRUE, r, EchoResponse(r.data_buffer))

\* INFO
InfoResponse ==
  <<ChK, ChS, ChP, ChI, 3, kApiVersion,
    U8(kFirmwareVersion \div 256), U8(BitAnd(kFirmwareVersion, 8))>>

InfoCommandHandler_on_cmd_loop ==
  StepResult(TRUE, serial_rx, data_buffer, data_size, send, last_spi_mode,
             aux_mode, aux_out, <<>>, InfoResponse, <<>>, FALSE)

\* SEND
SendReset ==
  [got_cmd_header |-> FALSE, cs_index |-> 0, spi_mode |-> SPI_MODE0,
   return_read_bytes |-> FALSE, speed_units |-> 0,
   custom_data_count |-> 0, extra_data_count |-> 0]

\* The fields decoded from the 6 header bytes in data_buffer[0..5].
SendParseHeader(buf) ==
  [got_cmd_header |-> TRUE,
   cs_index |-> BitAnd(BufGet(buf, 0), 3),
   spi_mode |-> BitAnd(BufGet(buf, 0) \div 4, 3),
   return_read_bytes |-> BitAnd(BufGet(buf, 0), 16) # 0,
   speed_units |-> BufGet(buf, 1),
   custom_data_count |-> U16(BufGet(buf, 2) * 256 + BufGet(buf, 3)),
   extra_data_count |-> U16(BufGet(buf, 4) * 256 + BufGet(buf, 5))]

SendHeaderDataSizeKept(size) == size

\* data_size after the header has been parsed.
SendHeaderDataSize(size) == 0

SendErrorCodeCountsFirst(speed_units, custom_data_count, extra_data_count) ==
  IF custom_data_count > kMaxTransactionBytes THEN 9
  ELSE IF extra_data_count > kMaxTransactionBytes THEN 10
  ELSE IF custom_data_count + extra_data_count > kMaxTransactionBytes THEN 11
  ELSE IF speed_units < 1 \/ speed_units > 160 THEN 12
  ELSE 0

\* The validation of the header; 0 means valid.  The sum is an int.
SendErrorCode(speed_units, custom_data_count, extra_data_count) ==
  IF speed_units < 1 \/ speed_units > 160 THEN 12
  ELSE IF custom_data_count > kMaxTransactionBytes THEN 9
  ELSE IF extra_data_count > kMaxTransactionBytes THEN 10
  ELSE IF custom_data_count + extra_data_count > kMaxTransactionBytes THEN 11
  ELSE 0

\* if (error_code) { write 'E', code; return true; }
SendRejects(error_code) == error_code # 0

SendRejectStepAfterPolarity(h, r, size, error_code) ==
  LET pol == track_spi_clock_polarity(h.spi_mode, last_spi_mode)
  IN  StepResult(TRUE, r.rx, r.data_buffer, size, h, pol.last_spi_mode,
                 aux_mode, aux_out, r.read, <<ChE, error_code>>, pol.hw, r.oob)

\* The step that rejects a header: the two response bytes and nothing else.
SendRejectStep(h, r, size, error_code) ==
  StepResult(TRUE, r.rx, r.data_buffer, size, h, last_spi_mode, aux_mode,
             aux_out, r.read, <<ChE, error_code>>, <<>>, r.oob)

\* memset(&data_buffer[custom], 0, extra)
SendZeroFill(buf, custom, extra) ==
  BufPut(buf, custom, [i \in 1 .. extra |-> 0])

\* What the SPI peripheral clocks back while tx is clocked out.
PeripheralReply(kind, tx) ==
  IF kind = "loopback" THEN tx ELSE [i \in 1 .. Len(tx) |-> 255]

SendResponseCountAlways(return_read_bytes, total_bytes) == total_bytes

\* response_count = _return_read_bytes ? total_bytes : 0
SendResponseCount(return_read_bytes, total_bytes) ==
  IF return_read_bytes THEN total_bytes ELSE 0

\* 'K', count MSB, count LSB, then response_count bytes of data_buffer.
SendOkResponse(buf, response_count) ==
  <<ChK, U8(response_count \div 256), U8(response_count % 256)>>
    \o [i \in 1 .. response_count |-> BufGet(buf, i - 1)]

SendTransferHwCsFirst(h, pol_hw, tx, miso, response) ==
  <<HwOp("cs_on", h.cs_index)>> \o pol_hw \o
  << HwEvent("transfer", [mode |-> h.spi_mode, speed |-> h.speed_units],
             tx, miso),
     HwOp("all_cs_off", 0),
     HwOp("serial_write", Len(response)) >>

\* What a SEND with a valid header does to the hardware, in order: the
\* dummy transfer if any, cs_on, the transfer, all_cs_off.  The write of
\* the response is logged after them to fix its place in the order.
SendTransferHw(h, pol_hw, tx, miso, response) ==
  pol_hw \o
  << HwOp("cs_on", h.cs_index),
     HwEvent("transfer", [mode |-> h.spi_mode, speed |-> h.speed_units],
             tx, miso),
     HwOp("all_cs_off", 0),
     HwOp("serial_write", Len(response)) >>

\* The part of SEND after a valid header: payload, zero fill, clock
\* polarity, chip select, transfer, response.
SendTransaction(h, rxq, buf, size, read, kind) ==
  LET r == IF h.custom_data_count # 0
           THEN read_serial_bytes(h.custom_data_count, rxq, buf, size)
           ELSE [rx |-> rxq, data_buffer |-> buf, data_size |-> size,
                 read |-> <<>>, oob |-> FALSE, ok |-> TRUE]
  IN  IF ~r.ok
      THEN StepResult(FALSE, r.rx, r.data_buffer, r.data_size, h,
                      last_spi_mode, aux_mode, aux_out, read \o r.read,
                      <<>>, <<>>, r.oob)
      ELSE
        LET filled == SendZeroFill(r.data_buffer, h.custom_data_count,
                                   h.extra_data_count)
            fill_oob == h.extra_data_count > 0 /\
               h.custom_data_count + h.extra_data_count > kMaxTransactionBytes
            pol == track_spi_clock_polarity(h.spi_mode, last_spi_mode)
            total_bytes == U16(h.custom_data_count + h.extra_data_count)
            tx == [i \in 1 .. Min(total_bytes, kMaxTransactionBytes) |->
                     BufGet(filled, i - 1)]
            miso == PeripheralReply(kind, tx)
            after == BufPut(filled, 0, miso)
            response_count == SendResponseCount(h.return_read_bytes,
                                                total_bytes)
            response == SendOkResponse(after, Min(response_count,
                                                  kMaxTransactionBytes))
            hw == SendTransferHw(h, pol.hw, tx, miso, response)
        IN  StepResult(TRUE, r.rx, after, r.data_size, h,
                       pol.last_spi_mode, aux_mode, aux_out, read \o r.read,
                       response, hw,
                       r.oob \/ fill_oob \/ total_bytes > kMaxTransactionBytes)

SendCommandHandler_on_cmd_loop(kind) ==
  IF send.got_cmd_header
  THEN SendTransaction(send, serial_rx, data_buffer, data_size, <<>>, kind)
  ELSE
    LET r == read_serial_bytes(6, serial_rx, data_buffer, data_size)
    IN  IF ~r.ok THEN ReadOnlyStep(FALSE, r, <<>>)
        ELSE
          LET h == SendParseHeader(r.data_buffer)
              size == SendHeaderDataSize(r.data_size)
              error_code == SendErrorCode(h.speed_units, h.custom_data_count,
                                          h.extra_data_count)
          IN  IF SendRejects(error_code)
              THEN SendRejectStep(h, r, size, error_code)
              ELSE SendTransaction(h, r.rx, r.data_buffer, size, r.read, kind)

\* AUX_MODE
AuxModeErrorCodeModeFirst(aux_pin_index, aux_pin_mode) ==
  IF aux_pin_mode \notin {1, 2, 3} THEN 2
  ELSE IF aux_pin_index >= kNumAuxPins THEN 1
  ELSE 0

\* 0 when the pin index and the mode are valid, else the error code.
AuxModeErrorCode(aux_pin_index, aux_pin_mode) ==
  IF aux_pin_index >= kNumAuxPins THEN 1
  ELSE IF aux_pin_mode \notin {1, 2, 3} THEN 2
  ELSE 0

AuxPinModeOf(aux_pin_mode) ==
  CASE aux_pin_mode = 1 -> "INPUT_PULLDOWN"
    [] aux_pin_mode = 2 -> "INPUT_PULLUP"
    [] aux_pin_mode = 3 -> "OUTPUT"

\* aux_pins[] maps aux pin index i to GPIO i.
aux_pins(i) == i

AuxPinModeCommandHandler_on_cmd_loop ==
  LET r == read_serial_bytes(2, serial_rx, data_buffer, data_size)
  IN  IF ~r.ok THEN ReadOnlyStep(FALSE, r, <<>>)
      ELSE
        LET aux_pin_index == BufGet(r.data_buffer, 0)
            aux_pin_mode == BufGet(r.data_buffer, 1)
            error_code == AuxModeErrorCode(aux_pin_index, aux_pin_mode)
        IN  IF error_code # 0
            THEN ReadOnlyStep(TRUE, r, <<ChE, error_code>>)
            ELSE
              LET gpio_pin == aux_pins(aux_pin_index)
                  m == AuxPinModeOf(aux_pin_mode)
              IN  StepResult(TRUE, r.rx, r.data_buffer, r.data_size, send,
                             last_spi_mode,
                             [aux_mode EXCEPT ![gpio_pin] = m], aux_out,
                             r.read, <<ChK>>,
                             <<HwOp("pinMode", <<gpio_pin, m>>)>>, r.oob)

\* AUX_READ
\* digitalRead: an output pin reads its latch, an input pin the level
\* driven from outside.
digitalRead(gpio_pin) ==
  IF aux_mode[gpio_pin] = "OUTPUT" THEN aux_out[gpio_pin]
  ELSE (aux_in \div (2 ^ gpio_pin)) % 2

RECURSIVE AuxPackReversed(_, _)
AuxPackReversed(i, result) ==
  IF i < 0 THEN result
  ELSE AuxPackReversed(i - 1,
                       U8(result * 2) + (IF digitalRead(aux_pins(7 - i)) # 0
                                         THEN 1 ELSE 0))

\* The loop from i = 7 down to 0: shift left, then or in the level.
RECURSIVE AuxPack(_, _)
AuxPack(i, result) ==
  IF i < 0 THEN result
  ELSE AuxPack(i - 1, U8(result * 2) + (IF digitalRead(aux_pins(i)) # 0
                                        THEN 1 ELSE 0))

AuxPinsReadCommandHandler_on_cmd_loop ==
  StepResult(TRUE, serial_rx, data_buffer, data_size, send, last_spi_mode,
             aux_mode, aux_out, <<>>, <<ChK, AuxPack(7, 0)>>,
             [i \in 1 .. 8 |->
                HwOp("digitalRead",
                     <<aux_pins(8 - i), digitalRead(aux_pins(8 - i))>>)],
             FALSE)

\* AUX_WRITE
AuxBit(b, i) == (b \div (2 ^ i)) % 2

AuxWrittenPinsAll(mask) == 0 .. 7

AuxWrittenPins(mask) == {i \in 0 .. 7 : AuxBit(mask, i) # 0}

RECURSIVE AuxWriteLog(_, _, _)
AuxWriteLog(i, values, mask) ==
  IF i >= 8 THEN <<>>
  ELSE (IF AuxBit(mask, i) # 0
        THEN <<HwOp("digitalWrite", <<aux_pins(i), AuxBit(values, i)>>)>>
        ELSE <<>>) \o AuxWriteLog(i + 1, values, mask)

AuxPinsWriteCommandHandler_on_cmd_loop ==
  LET r == read_serial_bytes(2, serial_rx, data_buffer, data_size)
  IN  IF ~r.ok THEN ReadOnlyStep(FALSE, r, <<>>)
      ELSE
        LET values == BufGet(r.data_buffer, 0)
            mask == BufGet(r.data_buffer, 1)
        IN  StepResult(TRUE, r.rx, r.data_buffer, r.data_size, send,
                       last_spi_mode, aux_mode,
                       [i \in 0 .. 7 |->
                          IF i \in AuxWrittenPins(mask)
                          THEN AuxBit(values, i) ELSE aux_out[i]],
                       r.read, <<ChK>>, AuxWriteLog(0, values, mask), r.oob)

\* ---------------------------------------------------------------------
find_command_handler_no_default(cmd_char) ==
  CASE cmd_char = Ch_i -> "INFO"
    [] cmd_char = Ch_m -> "AUX_MODE"
    [] cmd_char = Ch_a -> "AUX_READ"
    [] cmd_char = Ch_b -> "AUX_WRITE"
    [] cmd_char = Ch_s -> "SEND"
    [] OTHER -> "ECHO"

find_command_handler_by_char(cmd_char) ==
  CASE cmd_char = Ch_e -> "ECHO"
    [] cmd_char = Ch_i -> "INFO"
    [] cmd_char = Ch_m -> "AUX_MODE"
    [] cmd_char = Ch_a -> "AUX_READ"
    [] cmd_char = Ch_b -> "AUX_WRITE"
    [] cmd_char = Ch_s -> "SEND"
    [] OTHER -> NULL

on_cmd_loop(cmd, kind) ==
  CASE cmd = "ECHO" -> EchoCommandHandler_on_cmd_loop
    [] cmd = "INFO" -> InfoCommandHandler_on_cmd_loop
    [] cmd = "AUX_MODE" -> AuxPinModeCommandHandler_on_cmd_loop
    [] cmd = "AUX_READ" -> AuxPinsReadCommandHandler_on_cmd_loop
    [] cmd = "AUX_WRITE" -> AuxPinsWriteCommandHandler_on_cmd_loop
    [] cmd = "SEND" -> SendCommandHandler_on_cmd_loop(kind)

\* on_cmd_entered: only SEND overrides it, with reset().
on_cmd_entered(cmd) == IF cmd = "SEND" THEN SendReset ELSE send

\* ---------------------------------------------------------------------
\* What the host sends.

SendFrame(config, speed, custom, extra, payload) ==
  <<Ch_s, config, speed, custom \div 256, custom % 256,
    extra \div 256, extra % 256>> \o payload

\* A command with one argument byte, one with none, an unknown selector
\* and a SEND with a header, two payload bytes and one padding byte.
GeneralFrames ==
  { <<Ch_e, 7>>, <<Ch_i>>, <<0>>, SendFrame(29, 1, 2, 1, <<17, 34>>) }

RECURSIVE ScriptsOf(_, _)
ScriptsOf(frames, n) ==
  IF n = 0 THEN { <<>> }
  ELSE LET prev == ScriptsOf(frames, n - 1)
       IN  prev \cup { s \o f : s \in prev, f \in frames }

GeneralScripts == ScriptsOf(GeneralFrames, MaxFrames)

\* ---------------------------------------------------------------------
NoTick ==
  [branch |-> "none", start_cmd |-> NULL, since |-> U32(0, 0),
   selector |-> -1, loops |-> 0, read |-> <<>>, out |-> <<>>,
   hw |-> <<>>, led_update |-> FALSE, completed |-> FALSE, oob |-> FALSE,
   led_state |-> FALSE, age |-> 0, rest |-> -1]

NoCmd ==
  [name |-> NULL, admitted_at |-> U32(0, 0), in |-> <<>>, out |-> <<>>,
   end |-> "none", admitted_up |-> 0, ended_up |-> -1]

\* The clock is followed in steps of MillisSteps until MaxUptimeMillis
\* after power-up.
DefaultClock ==
  [uptime |-> 0, plan |-> <<>>, steps |-> MillisSteps,
   limit |-> MaxUptimeMillis, follow_cmd |-> FALSE]

\* The bytes of a script in packets of n bytes, the last one shorter.
RECURSIVE Packets(_, _)
Packets(script, n) ==
  IF script = <<>> THEN <<>>
  ELSE <<SubSeq(script, 1, Min(n, Len(script)))>>
         \o Packets(SubSeq(script, Min(n, Len(script)) + 1, Len(script)), n)

\* The state after static construction, before setup().  What millis()
\* returns at power-up is the platform's choice.
InitFull(scripts, sizes, levels, boots, clocks) ==
  /\ pc = "setup"
  /\ millis \in boots
  /\ clock \in clocks
  /\ serial_wire \in { Packets(s, n) : s \in scripts, n \in sizes }
  /\ serial_rx = <<>>
  /\ aux_in \in levels
  /\ current_cmd = NULL
  /\ cmd_timer = millis
  /\ data_buffer = <<>>
  /\ data_size = 0
  /\ send = SendReset
  /\ last_spi_mode = SPI_MODE1
  /\ last_led_state = FALSE
  /\ led = FALSE
  /\ cs_level = [i \in 0 .. kNumCsPins - 1 |-> "HIZ"]
  /\ aux_mode = [i \in 0 .. kNumAuxPins - 1 |-> "HIZ"]
  /\ aux_out = [i \in 0 .. kNumAuxPins - 1 |-> 0]
  /\ obs_tick = NoTick
  /\ obs_cmd = NoCmd

\* Every byte in a packet of its own, a clock that starts at 0.
InitWith(scripts, levels) ==
  InitFull(scripts, {1}, levels, {U32(0, 0)}, {DefaultClock})

Init == InitWith(GeneralScripts, {165})

\* setup()
Setup ==
  /\ pc = "setup"
  /\ pc' = "loop"
  /\ millis' = Add32(millis, kSetupDelayMillis)
  /\ clock' = [clock EXCEPT !.uptime = @ + kSetupDelayMillis]
  /\ led' = FALSE
  /\ last_led_state' = FALSE
  /\ cs_level' = all_cs_off
  /\ aux_mode' = [i \in 0 .. kNumAuxPins - 1 |-> "INPUT_PULLUP"]
  /\ LET pol == track_spi_clock_polarity(SPI_MODE0, last_spi_mode)
     IN  /\ last_spi_mode' = pol.last_spi_mode
         /\ obs_tick' = [NoTick EXCEPT !.branch = "setup",
                           !.hw = <<HwOp("all_cs_off", 0)>> \o pol.hw,
                           !.led_update = TRUE]
  /\ UNCHANGED <<serial_wire, serial_rx, aux_in, current_cmd, cmd_timer,
                 data_buffer, data_size, send, aux_out, obs_cmd>>

\* One more packet of the host's stream reaches Serial.
SerialArrive ==
  /\ pc = "loop"
  /\ serial_wire # <<>>
  /\ serial_rx' = serial_rx \o Head(serial_wire)
  /\ serial_wire' = Tail(serial_wire)
  /\ UNCHANGED <<pc, millis, clock, aux_in, current_cmd, cmd_timer, data_buffer,
                 data_size, send, last_spi_mode, last_led_state, led,
                 cs_level, aux_mode, aux_out, obs_tick, obs_cmd>>

\* millis() advances.  Its first advances are by the steps of clock.plan,
\* one set of steps per advance.  After them the clock is followed in
\* steps of clock.steps until clock.limit after power-up and, where
\* clock.follow_cmd says so, past it for as long as a command is active
\* and has not yet outlived the timeout.
MillisAdvance ==
  /\ pc = "loop"
  /\ \/ clock.plan # <<>>
     \/ clock.uptime < clock.limit
     \/ /\ clock.follow_cmd
        /\ current_cmd # NULL
        /\ clock.uptime - obs_cmd.admitted_up <= kCommandTimeoutMillis
  /\ \E d \in IF clock.plan # <<>> THEN Head(clock.plan) ELSE clock.steps :
       /\ millis' = Add32(millis, d)
       /\ clock' = [clock EXCEPT !.uptime = @ + d,
                      !.plan = IF @ = <<>> THEN @ ELSE Tail(@)]
  /\ UNCHANGED <<pc, serial_wire, serial_rx, aux_in, current_cmd, cmd_timer,
                 data_buffer, data_size, send, last_spi_mode, last_led_state,
                 led, cs_level, aux_mode, aux_out, obs_tick, obs_cmd>>

\* ---------------------------------------------------------------------
\* loop()

LedStateNoGrace(cmd, millis_since_cmd_start) ==
  cmd # NULL \/ BitAnd(millis_since_cmd_start.lo, kLedBlinkMask) = 0

\* new_led_state
LedState(cmd, millis_since_cmd_start) ==
  LET is_active == cmd # NULL \/
                   Lt32(millis_since_cmd_start, kLedActiveMillis)
  IN  is_active \/ BitAnd(millis_since_cmd_start.lo, kLedBlinkMask) = 0

TimedOutAtThreshold(millis_since_cmd_start) ==
  Gt32(millis_since_cmd_start, kCommandTimeoutMillis - 1)

\* millis_since_cmd_start > kCommandTimeoutMillis
TimedOut(millis_since_cmd_start) ==
  Gt32(millis_since_cmd_start, kCommandTimeoutMillis)

LoopLed(since) ==
  LET new_led_state == LedState(current_cmd, since)
  IN  /\ last_led_state' = new_led_state
      /\ led' = IF new_led_state # last_led_state THEN new_led_state ELSE led

LedUpdated(since) == LedState(current_cmd, since) # last_led_state

\* The record of a tick that took the given branch: what it saw at its
\* start.  age is the time since the command timer was last set and rest
\* the time since the last command ended (-1: none has, or one is active),
\* both measured on the clock that does not wrap.
TickStart(branch, since) ==
  [NoTick EXCEPT !.branch = branch, !.start_cmd = current_cmd,
     !.since = since, !.led_update = LedUpdated(since),
     !.led_state = LedState(current_cmd, since),
     !.age = clock.uptime - obs_cmd.admitted_up,
     !.rest = IF obs_cmd.ended_up < 0 THEN -1
              ELSE clock.uptime - obs_cmd.ended_up]

\* The chip-select levels after the hardware events of hw.
RECURSIVE CsAfter(_, _)
CsAfter(levels, hw) ==
  IF hw = <<>> THEN levels
  ELSE CsAfter(CASE Head(hw).op = "cs_on" -> cs_on(Head(hw).arg, levels)
                 [] Head(hw).op = "all_cs_off" -> all_cs_off
                 [] OTHER -> levels,
               Tail(hw))

LoopAbortDrains(since) ==
  /\ current_cmd' = NULL
  /\ serial_rx' = <<>>
  /\ obs_tick' = TickStart("abort", since)
  /\ obs_cmd' = [obs_cmd EXCEPT !.end = "abort", !.ended_up = clock.uptime]
  /\ UNCHANGED <<cmd_timer, data_buffer, data_size, send,
                 last_spi_mode, cs_level, aux_mode, aux_out>>

\* The command is aborted: no handler step, no response.
LoopAbort(since) ==
  /\ current_cmd' = NULL
  /\ obs_tick' = TickStart("abort", since)
  /\ obs_cmd' = [obs_cmd EXCEPT !.end = "abort", !.ended_up = clock.uptime]
  /\ UNCHANGED <<serial_rx, cmd_timer, data_buffer, data_size, send,
                 last_spi_mode, cs_level, aux_mode, aux_out>>

\* One on_cmd_loop() of the active command.
LoopStep(since) ==
  \E kind \in Peripherals :
    \E r \in {on_cmd_loop(current_cmd, kind)} :
        /\ current_cmd' = IF r.completed THEN NULL ELSE current_cmd
        /\ serial_rx' = r.rx
        /\ data_buffer' = r.data_buffer
        /\ data_size' = r.data_size
        /\ send' = r.send
        /\ last_spi_mode' = r.last_spi_mode
        /\ aux_mode' = r.aux_mode
        /\ aux_out' = r.aux_out
        /\ cs_level' = CsAfter(cs_level, r.hw)
        /\ obs_tick' = [TickStart("step", since) EXCEPT
                          !.loops = 1, !.read = r.read, !.out = r.out,
                          !.hw = r.hw,
                          !.completed = r.completed, !.oob = r.oob]
        /\ obs_cmd' = [obs_cmd EXCEPT !.in = @ \o r.read, !.out = @ \o r.out,
                         !.end = IF r.completed THEN "done" ELSE @,
                         !.ended_up = IF r.completed THEN clock.uptime
                                      ELSE @]
        /\ UNCHANGED cmd_timer

\* No command is active: read a selector byte and dispatch on it.
LoopIdle(millis_now, since) ==
  \E r \in {read_serial_bytes(1, serial_rx, data_buffer, 0)} :
  LET cmd_char == BufGet(r.data_buffer, 0)
      cmd == IF r.ok THEN find_command_handler_by_char(cmd_char) ELSE NULL
      admitted == r.ok /\ cmd # NULL
  IN  /\ cs_level' = all_cs_off
      /\ serial_rx' = r.rx
      /\ data_buffer' = r.data_buffer
      /\ current_cmd' = cmd
      /\ cmd_timer' = IF admitted THEN TimerReset(millis_now) ELSE cmd_timer
      /\ data_size' = IF admitted THEN 0 ELSE r.data_size
      /\ send' = IF admitted THEN on_cmd_entered(cmd) ELSE send
      /\ obs_tick' = [TickStart("idle", since) EXCEPT
                        !.selector = IF r.ok THEN cmd_char ELSE -1,
                        !.read = r.read,
                        !.hw = <<HwOp("all_cs_off", 0)>>, !.oob = r.oob]
      /\ obs_cmd' = IF current_cmd' # NULL
                    THEN [name |-> current_cmd', admitted_at |-> millis_now,
                          in |-> <<>>, out |-> <<>>, end |-> "active",
                          admitted_up |-> clock.uptime, ended_up |-> -1]
                    ELSE obs_cmd
      /\ UNCHANGED <<last_spi_mode, aux_mode, aux_out>>

LoopNeverAborts ==
  /\ pc = "loop"
  /\ LET millis_now == millis
         millis_since_cmd_start == elapsed_millis(millis_now, cmd_timer)
     IN  /\ LoopLed(millis_since_cmd_start)
         /\ IF current_cmd # NULL
            THEN LoopStep(millis_since_cmd_start)
            ELSE LoopIdle(millis_now, millis_since_cmd_start)
  /\ UNCHANGED <<pc, millis, clock, serial_wire, aux_in>>

Loop ==
  /\ pc = "loop"
  /\ LET millis_now == millis
         millis_since_cmd_start == elapsed_millis(millis_now, cmd_timer)
     IN  /\ LoopLed(millis_since_cmd_start)
         /\ IF current_cmd # NULL
            THEN IF TimedOut(millis_since_cmd_start)
                 THEN LoopAbort(millis_since_cmd_start)
                 ELSE LoopStep(millis_since_cmd_start)
            ELSE LoopIdle(millis_now, millis_since_cmd_start)
  /\ UNCHANGED <<pc, millis, clock, serial_wire, aux_in>>

Next == Setup \/ SerialArrive \/ MillisAdvance \/ Loop

Spec == Init /\ [][Next]_vars

\* One SEND: every combination of these configs, speeds and counts, with
\* the payload the header announces, cut after MaxPayload bytes.
SendConfigs == {0, 29}

SendSpeeds == {0, 1, 160, 161}

SendCounts == {0, 1, 2, 256, 257}

SendPayload(custom) == [i \in 1 .. Min(custom, MaxPayload) |-> 17 * i]

SendScripts ==
  { SendFrame(c, sp, cu, ex, SendPayload(cu)) :
      c \in SendConfigs, sp \in SendSpeeds, cu \in SendCounts,
      ex \in SendCounts }

InitSend == InitWith(SendScripts, {165})

SpecSend == InitSend /\ [][Next]_vars

\* The same ECHO, for every byte value, EchoRepeats times in a row.
RECURSIVE Repeat(_, _)
Repeat(frame, n) == IF n = 0 THEN <<>> ELSE frame \o Repeat(frame, n - 1)

EchoScripts == { Repeat(<<Ch_e, v>>, EchoRepeats) : v \in Byte }

InitEcho == InitWith(EchoScripts, {165})

SpecEcho == InitEcho /\ [][Next]_vars

\* One AUX_MODE, for every pin index and the modes around the valid ones.
AuxModeModes == {0, 1, 2, 3, 4, 255}

AuxModeScripts == { <<Ch_m, idx, mode>> : idx \in Byte, mode \in AuxModeModes }

InitAuxMode == InitWith(AuxModeScripts, {165})

SpecAuxMode == InitAuxMode /\ [][Next]_vars

\* Every byte that is not a selector, alone, before and after an INFO.
SelectorScripts ==
  UNION { { <<b>>, <<b, Ch_i>>, <<Ch_i, b>> } : b \in Byte \ Selectors }

InitSelector == InitWith(SelectorScripts, {165})

SpecSelector == InitSelector /\ [][Next]_vars

\* One or two AUX_READ, for every combination of levels on the aux lines.
AuxReadScripts == { <<Ch_a>>, <<Ch_a, Ch_a>> }

InitAuxRead == InitWith(AuxReadScripts, Byte)

SpecAuxRead == InitAuxRead /\ [][Next]_vars

\* One AUX_WRITE, for every values byte and these masks; and the write of
\* 0b10110000 under mask 0b11110000 followed by pins 4..7 made outputs and
\* an AUX_READ.
AuxWriteMasks == {0, 1, 15, 128, 170, 240, 255}

AuxWriteReadBack ==
  <<Ch_b, 176, 240, Ch_m, 4, 3, Ch_m, 5, 3, Ch_m, 6, 3, Ch_m, 7, 3, Ch_a>>

AuxWriteScripts ==
  { <<Ch_b, v, m>> : v \in Byte, m \in AuxWriteMasks } \cup {AuxWriteReadBack}

InitAuxWrite == InitWith(AuxWriteScripts, {165})

SpecAuxWrite == InitAuxWrite /\ [][Next]_vars

\* SENDs that use the whole of data_buffer: 256 payload bytes followed by
\* one byte more, 1 payload byte and 255 of padding, 256 of padding, and
\* 2 payload bytes with 256 of padding, which is one cell too many.
FullPayload(n) == [i \in 1 .. n |-> 170]

BufferScripts ==
  { SendFrame(16, 1, kMaxTransactionBytes, 0,
              FullPayload(kMaxTransactionBytes)) \o <<170>>,
    SendFrame(16, 1, 1, kMaxTransactionBytes - 1, <<170>>),
    SendFrame(16, 1, 0, kMaxTransactionBytes, <<>>),
    SendFrame(16, 1, 2, kMaxTransactionBytes, <<170, 170>>) }

\* The bytes arrive in packets of 64 or of 100 bytes.
BufferPackets == {64, 100}

InitBuffer ==
  InitFull(BufferScripts, BufferPackets, {165}, {U32(0, 0)}, {DefaultClock})

SpecBuffer == InitBuffer /\ [][Next]_vars

\* Up to MaxFrames frames out of: a one-byte SEND on each chip select in
\* each SPI mode (cs 0 mode 0, cs 1 mode 1, cs 2 mode 2, cs 3 mode 3), a
\* SEND in mode 1 with speed 0, which is rejected, and an ECHO.
SpiFrames ==
  { SendFrame(c, 1, 0, 1, <<>>) : c \in {0, 5, 10, 15} } \cup
  { SendFrame(7, 0, 0, 1, <<>>), <<Ch_e, 7>> }

SpiScripts == ScriptsOf(SpiFrames, MaxFrames)

\* The bytes arrive in packets of 3 bytes.
SpiPackets == {3}

InitSpi ==
  InitFull(SpiScripts, SpiPackets, {165}, {U32(0, 0)}, {DefaultClock})

SpecSpi == InitSpi /\ [][Next]_vars

\* Power-up with millis() at 600 ms and at 751 ms before it wraps to 0,
\* so that the first tick is 100 ms and 251 ms before the wrap; one frame,
\* or an ECHO whose second byte never comes; the clock is followed until
\* the active command has outlived its timeout.
RolloverBoots == { U32(Pow16 - 1, Pow16 - 600), U32(Pow16 - 1, Pow16 - 751) }

RolloverScripts == ScriptsOf(GeneralFrames, 1) \cup { <<Ch_e>> }

CommandClock == [DefaultClock EXCEPT !.follow_cmd = TRUE]

InitRollover ==
  InitFull(RolloverScripts, {1}, {165}, RolloverBoots, {CommandClock})

SpecRollover == InitRollover /\ [][Next]_vars

\* loop() is called again and again, so a command that has outlived its
\* timeout meets a tick, and millis() keeps advancing; the host sends one
\* frame, or a frame that lacks its last byte or its payload, and may stop
\* sending at any point.
LoopOnTimeout ==
  /\ pc = "loop"
  /\ current_cmd # NULL
  /\ TimedOut(elapsed_millis(millis, cmd_timer))
  /\ Loop

LiveScripts ==
  ScriptsOf(GeneralFrames, 1) \cup
  { <<Ch_e>>, <<Ch_m, 1>>, <<Ch_b, 1>>, SendFrame(29, 1, 2, 1, <<17>>) }

InitLive ==
  InitFull(LiveScripts, {1}, {165}, {U32(0, 0)}, {CommandClock})

SpecLive ==
  InitLive /\ [][Next]_vars /\ WF_vars(LoopOnTimeout) /\ WF_vars(MillisAdvance)

\* The indicator: a first clock step that puts a tick 199 or 200 ms after
\* an admission and a second one that puts a tick 2047, 2048, 2051 or
\* 2052 ms after it; an INFO, an ECHO and an ECHO whose second byte never
\* comes.
LedPlan == << {199, 200}, {1848, 1852} >>

LedClock ==
  [uptime |-> 0, plan |-> LedPlan, steps |-> {}, limit |-> 0,
   follow_cmd |-> FALSE]

LedScripts == { <<Ch_i>>, <<Ch_e, 7>>, <<Ch_e>> }

InitLed == InitFull(LedScripts, {1}, {165}, {U32(0, 0)}, {LedClock})

SpecLed == InitLed /\ [][Next]_vars

\* Frames whose tail can be left over: a SEND with speed 0, which is
\* rejected, and a valid SEND, each with payload bytes that are selectors,
\* and an AUX_MODE followed by an AUX_READ.  No script asks for an INFO.
LeftoverScripts ==
  { SendFrame(0, 0, 1, 0, <<Ch_i>>),
    SendFrame(0, 1, 2, 0, <<Ch_i, Ch_e>>),
    <<Ch_m, 1, Ch_a>> }

InitLeftover == InitWith(LeftoverScripts, {165})

SpecLeftover == InitLeftover /\ [][Next]_vars

TypeOK ==
  /\ current_cmd \in Handlers \cup {NULL}
  /\ data_size \in 0 .. Pow16 - 1
  /\ last_spi_mode \in 0 .. 3

\* ---------------------------------------------------------------------
\* C1: the active-command slot holds at most one handler; a selector byte
\* is read only in a tick that started with the slot empty; a tick runs at
\* most one on_cmd_loop() and the tick that admits a command runs none;
\* while the slot is non-empty the command timer holds the time of that
\* command's admission.
C1_OneCommandAtATime ==
  /\ current_cmd \in Handlers \cup {NULL}
  /\ obs_tick.selector # -1 => obs_tick.start_cmd = NULL
  /\ obs_tick.read # <<>> /\ obs_tick.start_cmd = NULL =>
       obs_tick.selector # -1 /\ obs_tick.read = <<obs_tick.selector>>
  /\ obs_tick.loops <= 1
  /\ obs_tick.loops = 1 => obs_tick.start_cmd # NULL
  /\ obs_tick.selector \in Selectors => obs_tick.loops = 0
  /\ current_cmd # NULL =>
       /\ obs_cmd.name = current_cmd
       /\ obs_cmd.end = "active"
       /\ cmd_timer = obs_cmd.admitted_at

C1_Witness ==
  /\ current_cmd = "SEND"
  /\ obs_tick.branch = "idle"
  /\ obs_tick.selector = Ch_s
  /\ obs_cmd.admitted_at # U32(0, 0)

\* C2: a command is aborted exactly in a tick that starts with more than
\* 250 ms elapsed since its admission, before any handler step; the tick
\* clears the slot and writes nothing, no response is ever written for an
\* aborted command, a command that completes does so in a tick with at
\* most 250 ms elapsed, and the tick after the abort reads the next
\* selector byte.
C2_TimeoutState ==
  /\ obs_tick.branch = "abort" =>
       /\ Gt32(obs_tick.since, 250)
       /\ obs_tick.start_cmd # NULL
       /\ obs_tick.loops = 0
       /\ obs_tick.out = <<>>
       /\ obs_tick.read = <<>>
       /\ current_cmd = NULL
       /\ obs_cmd.end = "abort"
  /\ obs_tick.branch = "step" => ~Gt32(obs_tick.since, 250)
  /\ obs_cmd.end \in {"abort", "active"} => obs_cmd.out = <<>>
  /\ obs_tick.branch \in {"idle", "abort"} => obs_tick.out = <<>>

C2_TimeoutNext ==
  obs_tick.branch = "abort" /\ Loop =>
    /\ obs_tick'.branch = "idle"
    /\ serial_rx # <<>> => obs_tick'.selector = Head(serial_rx)

\* C2: the timeout facts above hold in every state and at every tick.
C2_Timeout == [] C2_TimeoutState /\ [][C2_TimeoutNext]_vars

C2_Witness ==
  /\ obs_tick.branch = "abort"
  /\ obs_cmd.name = "SEND"
  /\ Len(obs_cmd.in) > 6
  /\ serial_rx # <<>>

\* C3: a byte that is none of 'e','i','m','a','b','s', read as a selector,
\* is consumed alone, produces no response, leaves the slot empty and the
\* command timer as it was, and causes no SPI transfer and no access to an
\* aux line (the only pin activity of the tick is the de-assertion of the
\* chip selects that every idle tick performs); the next tick reads a
\* selector again.
C3_UnknownState ==
  /\ pc = "loop" => cmd_timer = obs_cmd.admitted_at
  /\ obs_tick.branch = "idle" /\ obs_tick.selector \notin Selectors \cup {-1} =>
       /\ obs_tick.read = <<obs_tick.selector>>
       /\ obs_tick.out = <<>>
       /\ obs_tick.loops = 0
       /\ current_cmd = NULL
       /\ obs_tick.hw = <<HwOp("all_cs_off", 0)>>
       /\ cs_level = all_cs_off

C3_UnknownStep ==
  Loop /\ current_cmd = NULL /\ serial_rx # <<>> /\
  Head(serial_rx) \notin Selectors =>
    /\ serial_rx' = Tail(serial_rx)
    /\ obs_tick'.selector = Head(serial_rx)
    /\ current_cmd' = NULL
    /\ UNCHANGED <<cmd_timer, last_spi_mode, aux_mode, aux_out, obs_cmd>>

C3_UnknownNext ==
  obs_tick.branch = "idle" /\ obs_tick.selector \notin Selectors /\ Loop =>
    obs_tick'.branch = "idle"

\* C3: an unknown selector byte is dropped silently, in every state and at
\* every tick.
C3_UnknownSelector ==
  [] C3_UnknownState /\ [][C3_UnknownStep /\ C3_UnknownNext]_vars

C3_Witness ==
  /\ obs_tick.branch = "idle"
  /\ obs_tick.selector = 255
  /\ obs_cmd.end = "done"
  /\ serial_wire = <<>>

\* ---------------------------------------------------------------------
\* The header fields of the SEND that obs_cmd describes, read off the bytes
\* the command consumed, and the verdict the protocol gives on them.
HdrConfig == obs_cmd.in[1]

HdrSpeed == obs_cmd.in[2]

HdrCustom == obs_cmd.in[3] * 256 + obs_cmd.in[4]

HdrExtra == obs_cmd.in[5] * 256 + obs_cmd.in[6]

HdrEcho == (HdrConfig \div 16) % 2 = 1

HdrVerdict ==
  IF HdrSpeed < 1 \/ HdrSpeed > 160 THEN 12
  ELSE IF HdrCustom > 256 THEN 9
  ELSE IF HdrExtra > 256 THEN 10
  ELSE IF HdrCustom + HdrExtra > 256 THEN 11
  ELSE 0

SendHasHeader == obs_cmd.name = "SEND" /\ Len(obs_cmd.in) >= 6

\* The tick just run completed a SEND.
SendJustCompleted ==
  /\ obs_tick.branch = "step"
  /\ obs_tick.start_cmd = "SEND"
  /\ obs_tick.completed

\* The transfer event of the tick just run.
TickTransfer ==
  CHOOSE ev \in {obs_tick.hw[i] : i \in 1 .. Len(obs_tick.hw)} :
    ev.op = "transfer"

Zeros(n) == [i \in 1 .. n |-> 0]

\* C4: once the 6 header bytes of a SEND are in, the response is 'E',12
\* for a speed outside [1,160], else 'E',9 for custom_count > 256, else
\* 'E',10 for extra_count > 256, else 'E',11 for custom_count + extra_count
\* > 256; otherwise no error response is written: the command waits for
\* its payload or answers 'K'.
C4_SendValidation ==
  /\ obs_cmd.name = "SEND" /\ Len(obs_cmd.in) < 6 => obs_cmd.out = <<>>
  /\ SendHasHeader =>
       IF HdrVerdict # 0
       THEN /\ obs_cmd.out = <<ChE, HdrVerdict>>
            /\ obs_cmd.end = "done"
       ELSE /\ obs_cmd.out # <<>> => obs_cmd.out[1] = ChK
            /\ obs_cmd.end = "done" => obs_cmd.out # <<>>
            /\ Len(obs_cmd.in) <= 6 + HdrCustom

C4_Witness ==
  /\ SendHasHeader
  /\ HdrSpeed = 160
  /\ HdrCustom = 1
  /\ HdrExtra = 256
  /\ obs_cmd.out = <<ChE, 11>>

\* C5: the step that completes an invalid SEND header writes exactly 'E'
\* and the code, completes the command and empties the slot, and makes no
\* hardware access: no chip select is asserted, no SPI transfer (real or
\* dummy) is made and last_spi_mode keeps its value.
C5_RejectState ==
  SendHasHeader /\ HdrVerdict # 0 =>
    /\ Len(obs_cmd.in) = 6
    /\ obs_cmd.end = "done"
    /\ obs_cmd.out = <<ChE, HdrVerdict>>
    /\ SendJustCompleted =>
         /\ obs_tick.out = <<ChE, HdrVerdict>>
         /\ obs_tick.read # <<>>
         /\ obs_tick.hw = <<>>
         /\ current_cmd = NULL
         /\ cs_level = all_cs_off

C5_RejectStep ==
  Loop /\ current_cmd = "SEND" /\ obs_tick'.out # <<>> /\
  obs_tick'.out[1] = ChE =>
    /\ current_cmd' = NULL
    /\ obs_tick'.hw = <<>>
    /\ UNCHANGED <<last_spi_mode, cs_level, aux_mode, aux_out>>

\* C5: a rejected SEND header is answered with 'E',code and no hardware
\* access, in every state and at every tick.
C5_RejectNoHardware == [] C5_RejectState /\ [][C5_RejectStep]_vars

C5_Witness ==
  /\ SendJustCompleted
  /\ HdrVerdict = 9
  /\ HdrConfig = 29
  /\ last_spi_mode = SPI_MODE0
  /\ Len(obs_tick.read) = 1

\* C6: a SEND with a valid header answers 'K', then the 16-bit big-endian
\* count, which is 0 when config bit 4 is clear and custom_count +
\* extra_count when it is set, then that many bytes: the bytes received in
\* the transfer, as they stand in data_buffer.  All-zero counts, speed 1
\* and config 0 give 'K',0,0.
C6_SendResponse ==
  SendHasHeader /\ HdrVerdict = 0 /\ obs_cmd.end = "done" =>
    LET total == HdrCustom + HdrExtra
        count == IF HdrEcho THEN total ELSE 0
    IN  /\ Len(obs_cmd.out) = 3 + count
        /\ obs_cmd.out[1] = ChK
        /\ obs_cmd.out[2] = count \div 256
        /\ obs_cmd.out[3] = count % 256
        /\ obs_cmd.in = <<0, 1, 0, 0, 0, 0>> => obs_cmd.out = <<ChK, 0, 0>>
        /\ SendJustCompleted =>
             /\ Len(TickTransfer.rx) = total
             /\ \A i \in 1 .. count :
                  /\ obs_cmd.out[3 + i] = TickTransfer.rx[i]
                  /\ obs_cmd.out[3 + i] = BufGet(data_buffer, i - 1)

C6_Witness ==
  /\ SendJustCompleted
  /\ HdrVerdict = 0
  /\ HdrConfig = 29
  /\ obs_cmd.out = <<ChK, 0, 3, 255, 255, 255>>

\* C7: however the bytes of a valid SEND arrive, the buffer given to the
\* SPI transfer is the custom_count payload bytes in arrival order followed
\* by extra_count zero bytes; when the peripheral loops the data back and
\* the echo flag is set, the response carries the transferred count and the
\* transmitted bytes.
C7_SendBuffer ==
  SendJustCompleted /\ HdrVerdict = 0 =>
    LET payload == SubSeq(obs_cmd.in, 7, 6 + HdrCustom)
        tx == TickTransfer.tx
    IN  /\ Len(obs_cmd.in) = 6 + HdrCustom
        /\ tx = payload \o Zeros(HdrExtra)
        /\ HdrEcho /\ TickTransfer.rx = tx =>
             obs_cmd.out =
               <<ChK, Len(tx) \div 256, Len(tx) % 256>> \o tx

C7_Witness ==
  /\ SendJustCompleted
  /\ HdrVerdict = 0
  /\ HdrCustom = 2
  /\ HdrExtra = 1
  /\ HdrEcho
  /\ Len(obs_tick.read) = 1
  /\ TickTransfer.rx = TickTransfer.tx
  /\ obs_cmd.out = <<ChK, 0, 3, 17, 34, 0>>

\* C8: every completed ECHO consumed exactly one byte after its selector
\* and answered with exactly that byte, whatever was completed, rejected
\* or timed out before it.
C8_Echo ==
  /\ obs_cmd.name = "ECHO" /\ obs_cmd.end = "done" =>
       /\ Len(obs_cmd.in) = 1
       /\ obs_cmd.out = obs_cmd.in
  /\ obs_cmd.name = "ECHO" /\ obs_cmd.in # <<>> => obs_cmd.end = "done"

C8_Witness ==
  /\ obs_cmd.name = "ECHO"
  /\ obs_cmd.end = "done"
  /\ obs_cmd.out = <<255>>
  /\ obs_tick.branch = "step"
  /\ obs_tick.since = U32(0, 250)
  /\ serial_wire = <<>>
  /\ serial_rx = <<>>

\* C9: the response to 'i' is 'K','S','P','I',3, the API version, and the
\* firmware version as MSB then LSB: 0 and 1 for kFirmwareVersion = 1.
C9_InfoResponse ==
  obs_cmd.name = "INFO" /\ obs_cmd.end = "done" =>
    obs_cmd.out = <<ChK, ChS, ChP, ChI, 3, kApiVersion,
                    kFirmwareVersion \div 256, kFirmwareVersion % 256>>

\* C10: AUX_MODE answers 'E',1 for a pin index >= 8 whatever the mode,
\* else 'E',2 for a mode other than 1, 2, 3, else 'K' after configuring
\* exactly the addressed line (1 input-pulldown, 2 input-pullup, 3 output);
\* on an error no pin mode changes.
AuxModeName(mode) ==
  CASE mode = 1 -> "INPUT_PULLDOWN"
    [] mode = 2 -> "INPUT_PULLUP"
    [] mode = 3 -> "OUTPUT"
    [] OTHER -> "none"

AuxModeExpected(idx, mode) ==
  IF idx >= 8 THEN <<ChE, 1>>
  ELSE IF mode \notin {1, 2, 3} THEN <<ChE, 2>>
  ELSE <<ChK>>

C10_AuxModeState ==
  obs_cmd.name = "AUX_MODE" =>
    /\ Len(obs_cmd.in) < 2 => obs_cmd.out = <<>>
    /\ Len(obs_cmd.in) >= 2 =>
         /\ Len(obs_cmd.in) = 2
         /\ obs_cmd.end = "done"
         /\ obs_cmd.out = AuxModeExpected(obs_cmd.in[1], obs_cmd.in[2])

C10_AuxModeStep ==
  Loop /\ current_cmd = "AUX_MODE" /\ obs_tick'.completed =>
    LET idx == obs_cmd'.in[1]
        mode == obs_cmd'.in[2]
    IN  IF AuxModeExpected(idx, mode) = <<ChK>>
        THEN /\ aux_mode' = [aux_mode EXCEPT ![idx] = AuxModeName(mode)]
             /\ obs_tick'.hw = <<HwOp("pinMode", <<idx, AuxModeName(mode)>>)>>
        ELSE /\ aux_mode' = aux_mode
             /\ obs_tick'.hw = <<>>

\* C10: AUX_MODE validates the index, then the mode, and configures only
\* the addressed line, in every state and at every tick.
C10_AuxMode == [] C10_AuxModeState /\ [][C10_AuxModeStep]_vars

C10_Witness ==
  /\ obs_cmd.name = "AUX_MODE"
  /\ obs_cmd.in = <<7, 3>>
  /\ obs_cmd.out = <<ChK>>
  /\ aux_mode[7] = "OUTPUT"
  /\ aux_mode[6] = "INPUT_PULLUP"

\* C11: AUX_READ answers 'K' and one byte whose bit i is the level read on
\* aux pin i (bit 0 for pin 0, bit 7 for pin 7), which for an input pin is
\* the level on the line; it reads no byte after its selector, completes
\* in its first step, and changes no pin mode, output latch or chip
\* select.
C11_AuxReadState ==
  obs_tick.branch = "step" /\ obs_tick.start_cmd = "AUX_READ" =>
    /\ obs_tick.completed
    /\ obs_tick.read = <<>>
    /\ obs_cmd.in = <<>>
    /\ Len(obs_tick.out) = 2
    /\ obs_tick.out[1] = ChK
    /\ obs_cmd.out = obs_tick.out
    /\ Len(obs_tick.hw) = kNumAuxPins
    /\ \A i \in 0 .. kNumAuxPins - 1 :
         \E e \in {obs_tick.hw[kNumAuxPins - i]} :
           /\ e.op = "digitalRead"
           /\ e.arg[1] = i
           /\ AuxBit(obs_tick.out[2], i) = e.arg[2]
           /\ aux_mode[i] # "OUTPUT" => e.arg[2] = AuxBit(aux_in, i)

C11_AuxReadStep ==
  Loop /\ current_cmd = "AUX_READ" /\ obs_tick'.branch = "step" =>
    /\ current_cmd' = NULL
    /\ UNCHANGED <<serial_rx, aux_mode, aux_out, cs_level, data_size>>

C11_AuxRead == [] C11_AuxReadState /\ [][C11_AuxReadStep]_vars

C11_Witness ==
  /\ aux_in = 19
  /\ obs_cmd.name = "AUX_READ"
  /\ obs_cmd.end = "done"
  /\ obs_cmd.out = <<ChK, 19>>
  /\ serial_wire = <<>>
  /\ serial_rx = <<Ch_a>>

\* C12: AUX_WRITE with the bytes (values, mask) issues one digitalWrite
\* for each pin whose mask bit is set, with bit i of values as the level,
\* and none for the other pins, whose latches keep their value; it issues
\* no pinMode, so no pin mode changes; its response is 'K' whatever the
\* two bytes are.  Before its second byte has arrived it writes nothing.
C12_AuxWriteState ==
  obs_tick.branch = "step" /\ obs_tick.start_cmd = "AUX_WRITE" /\
  obs_tick.completed =>
    /\ Len(obs_cmd.in) = 2
    /\ obs_tick.out = <<ChK>>
    /\ obs_cmd.out = <<ChK>>
    /\ \A k \in 1 .. Len(obs_tick.hw) :
         /\ obs_tick.hw[k].op = "digitalWrite"
         /\ obs_tick.hw[k].arg[1] \in 0 .. kNumAuxPins - 1
         /\ obs_tick.hw[k].arg[2] =
              (obs_cmd.in[1] \div 2 ^ obs_tick.hw[k].arg[1]) % 2
         /\ aux_out[obs_tick.hw[k].arg[1]] = obs_tick.hw[k].arg[2]
         /\ \A j \in 1 .. Len(obs_tick.hw) :
              obs_tick.hw[j].arg[1] = obs_tick.hw[k].arg[1] => j = k
    /\ \A i \in 0 .. kNumAuxPins - 1 :
         (obs_cmd.in[2] \div 2 ^ i) % 2 = 1 <=>
           \E k \in 1 .. Len(obs_tick.hw) : obs_tick.hw[k].arg[1] = i

C12_AuxWriteStep ==
  Loop /\ current_cmd = "AUX_WRITE" =>
    /\ UNCHANGED <<aux_mode, cs_level>>
    /\ obs_tick'.completed =>
         \A i \in 0 .. kNumAuxPins - 1 :
           (obs_cmd'.in[2] \div 2 ^ i) % 2 = 0 => aux_out'[i] = aux_out[i]
    /\ ~obs_tick'.completed =>
         /\ UNCHANGED aux_out
         /\ obs_tick'.hw = <<>>
         /\ obs_tick'.out = <<>>

C12_AuxWrite == [] C12_AuxWriteState /\ [][C12_AuxWriteStep]_vars

\* values = 0b10110000 under mask = 0b11110000: pins 7..4 carry 1, 0, 1, 1
\* and pins 3..0 still hold their initial latch.
C12_Witness ==
  /\ obs_cmd.name = "AUX_WRITE"
  /\ obs_cmd.end = "done"
  /\ obs_cmd.in = <<176, 240>>
  /\ obs_tick.completed
  /\ aux_out = [i \in 0 .. 7 |-> IF i \in {4, 5, 7} THEN 1 ELSE 0]
  /\ \A i \in 0 .. 7 : aux_mode[i] = "INPUT_PULLUP"

\* C13: data_size never exceeds the 256 cells of data_buffer; while a
\* command is active it never exceeds the length the command is reading
\* towards (1 for ECHO, 2 for AUX_MODE and AUX_WRITE, 6 for the SEND
\* header, custom_data_count for the SEND payload); no read_serial_bytes
\* call finds data_size above its n, so n - data_size never wraps; and no
\* serial read and no zero fill writes a cell outside 0..255.
ReadTarget ==
  CASE current_cmd = "ECHO" -> 1
    [] current_cmd \in {"AUX_MODE", "AUX_WRITE"} -> 2
    [] current_cmd = "SEND" ->
         IF send.got_cmd_header THEN send.custom_data_count ELSE 6
    [] OTHER -> 0

C13_BufferBounds ==
  /\ data_size <= kMaxTransactionBytes
  /\ Len(data_buffer) <= kMaxTransactionBytes
  /\ ~obs_tick.oob
  /\ current_cmd # NULL => data_size <= ReadTarget
  /\ current_cmd = "SEND" /\ send.got_cmd_header =>
       send.custom_data_count + send.extra_data_count <= kMaxTransactionBytes
  /\ \A k \in 1 .. Len(obs_tick.hw) :
       obs_tick.hw[k].op = "transfer" =>
         Len(obs_tick.hw[k].tx) <= kMaxTransactionBytes

\* The 256 payload bytes have filled the array and were transferred.
C13_Witness ==
  /\ obs_tick.start_cmd = "SEND"
  /\ obs_tick.completed
  /\ data_size = kMaxTransactionBytes
  /\ Len(obs_cmd.in) = 6 + kMaxTransactionBytes
  /\ Len(obs_tick.out) = 3 + kMaxTransactionBytes
  /\ serial_rx = <<170>>

\* C14 as stated: from the admission of a command until its completion or
\* abort, data_size never decreases from one tick to the next.
C14_CountNeverDecreases ==
  [][Loop /\ current_cmd # NULL => data_size' >= data_size]_vars

\* C14, amended: in a tick of an active command data_size grows by the
\* number of bytes read and, unless the tick completes the command, the
\* bytes already in data_buffer[0 .. data_size - 1] stay in place and the
\* bytes read are stored right after them; a tick that aborts the command
\* changes neither.  The one exception is the tick in which SEND gets the
\* last byte of its 6-byte header: it decodes the header into the
\* handler's fields and restarts data_size at zero, so that data_size then
\* counts the payload bytes only, which are stored from cell 0 on.
C14_HeaderStep ==
  current_cmd = "SEND" /\ ~send.got_cmd_header /\ send'.got_cmd_header

C14_PhaseStep ==
  Loop /\ current_cmd # NULL =>
    IF obs_tick'.branch = "abort"
    THEN UNCHANGED <<data_size, data_buffer, serial_rx>>
    ELSE IF C14_HeaderStep
    THEN /\ Len(obs_cmd'.in) >= 6
         /\ data_size' = Len(obs_cmd'.in) - 6
         /\ send'.speed_units = obs_cmd'.in[2]
         /\ send'.custom_data_count =
              obs_cmd'.in[3] * 256 + obs_cmd'.in[4]
         /\ send'.extra_data_count =
              obs_cmd'.in[5] * 256 + obs_cmd'.in[6]
         /\ ~obs_tick'.completed =>
              \A k \in 1 .. data_size' :
                data_buffer'[k] = obs_cmd'.in[6 + k]
    ELSE /\ data_size' = data_size + Len(obs_tick'.read)
         /\ ~obs_tick'.completed =>
              /\ \A k \in 1 .. data_size : data_buffer'[k] = data_buffer[k]
              /\ \A k \in 1 .. Len(obs_tick'.read) :
                   data_buffer'[data_size + k] = obs_tick'.read[k]

C14_MonotonicPerPhase == [][C14_PhaseStep]_vars

\* A SEND that has its header and the first of its payload bytes, stored
\* over the first header byte.
C14_Witness ==
  /\ current_cmd = "SEND"
  /\ send.got_cmd_header
  /\ obs_cmd.in = <<29, 1, 0, 2, 0, 1, 17>>
  /\ data_size = 1
  /\ data_buffer[1] = 17

\* C15: once setup() has run all four chip-select lines are de-asserted
\* at the end of every tick, so also whenever no command is active.  A
\* chip select is asserted only in the tick in which a SEND runs its
\* transfer: after the dummy transfer, if there is one, the line given by
\* bits 0-1 of the config byte, and only that line, is asserted; the
\* transfer follows; then all lines are de-asserted; then the response is
\* written.
C15_CsOnAt(k) ==
  /\ obs_tick.branch = "step"
  /\ obs_tick.start_cmd = "SEND"
  /\ obs_tick.hw[k].arg = obs_cmd.in[1] % 4
  /\ k = 1 \/ (k = 2 /\ obs_tick.hw[1].op = "dummy_transfer")
  /\ Len(obs_tick.hw) = k + 3
  /\ obs_tick.hw[k + 1].op = "transfer"
  /\ obs_tick.hw[k + 2].op = "all_cs_off"
  /\ obs_tick.hw[k + 3].op = "serial_write"
  /\ obs_tick.hw[k + 3].arg = Len(obs_tick.out)
  /\ CsAfter(all_cs_off, SubSeq(obs_tick.hw, 1, k)) =
       [i \in 0 .. kNumCsPins - 1 |->
          IF i = obs_cmd.in[1] % 4 THEN "LOW" ELSE "HIGH"]
  /\ CsAfter(all_cs_off, SubSeq(obs_tick.hw, 1, k + 2)) =
       [i \in 0 .. kNumCsPins - 1 |-> "HIGH"]

C15_ChipSelect ==
  /\ pc = "loop" => \A i \in 0 .. kNumCsPins - 1 : cs_level[i] = "HIGH"
  /\ \A k \in 1 .. Len(obs_tick.hw) :
       /\ obs_tick.hw[k].op = "cs_on" => C15_CsOnAt(k)
       /\ obs_tick.hw[k].op = "transfer" =>
            k > 1 /\ obs_tick.hw[k - 1].op = "cs_on"
  /\ obs_tick.branch = "step" /\ obs_tick.start_cmd = "SEND" /\
     obs_tick.out # <<>> /\ obs_tick.out[1] = ChK =>
       \E k \in 1 .. Len(obs_tick.hw) : obs_tick.hw[k].op = "cs_on"

\* A SEND on chip select 2 in a new mode has run its transfer.
C15_Witness ==
  /\ obs_tick.start_cmd = "SEND"
  /\ obs_tick.completed
  /\ obs_cmd.in[1] = 10
  /\ Len(obs_tick.hw) = 5
  /\ obs_tick.hw[1].op = "dummy_transfer"
  /\ obs_tick.hw[2] = HwOp("cs_on", 2)
  /\ current_cmd = NULL

\* C16: setup() leaves last_spi_mode at mode 0.  A tick in which a SEND
\* runs its transfer does one dummy transfer in the requested mode, before
\* the real one, exactly when that mode differs from last_spi_mode, and
\* leaves last_spi_mode at the requested mode, in which the real transfer
\* runs.  No other tick does a dummy transfer, and nothing else changes
\* last_spi_mode: not a rejected SEND, not an abort, not another command.
C16_Transferred(hw) == \E k \in 1 .. Len(hw) : hw[k].op = "transfer"

C16_Dummies(hw) == {k \in 1 .. Len(hw) : hw[k].op = "dummy_transfer"}

C16_LoopStep ==
  Loop =>
    IF C16_Transferred(obs_tick'.hw)
    THEN \E mode \in {(obs_cmd'.in[1] \div 4) % 4} :
           /\ current_cmd = "SEND"
           /\ last_spi_mode' = mode
           /\ C16_Dummies(obs_tick'.hw) =
                IF mode # last_spi_mode THEN {1} ELSE {}
           /\ mode # last_spi_mode => obs_tick'.hw[1].arg = mode
           /\ \A k \in 1 .. Len(obs_tick'.hw) :
                obs_tick'.hw[k].op = "transfer" =>
                  obs_tick'.hw[k].arg.mode = mode
    ELSE /\ last_spi_mode' = last_spi_mode
         /\ C16_Dummies(obs_tick'.hw) = {}

C16_OtherStep == last_spi_mode' # last_spi_mode => Setup \/ Loop

C16_AfterSetup ==
  /\ pc = "loop" => last_spi_mode \in 0 .. 3
  /\ obs_tick.branch = "setup" =>
       /\ last_spi_mode = SPI_MODE0
       /\ C16_Dummies(obs_tick.hw) # {}

C16_ClockPolarity ==
  [] C16_AfterSetup /\ [][C16_LoopStep]_vars /\ [][C16_OtherStep]_vars

\* The second of two SENDs in mode 1 has run its transfer with no dummy
\* transfer before it.
C16_Witness ==
  /\ obs_tick.start_cmd = "SEND"
  /\ obs_tick.completed
  /\ obs_cmd.in[1] = 5
  /\ Len(obs_tick.hw) = 4
  /\ obs_tick.hw[1] = HwOp("cs_on", 1)
  /\ last_spi_mode = 1

\* C17: the elapsed time a tick computes, (now - start) mod 2^32, equals
\* the true time since the command timer was set, also when millis() has
\* wrapped in between; so a tick aborts the command only when its true
\* age is above 250 ms and runs the handler when it is at most 250 ms.
C17_ElapsedAcrossWrap ==
  obs_tick.branch \in {"idle", "step", "abort"} =>
    /\ obs_tick.since = U32(0, obs_tick.age)
    /\ obs_tick.branch = "abort" => obs_tick.age > kCommandTimeoutMillis
    /\ obs_tick.branch = "step" => obs_tick.age <= kCommandTimeoutMillis

\* A handler step 250 ms after an admission that was before the wrap,
\* taken after the wrap.
C17_Witness ==
  /\ obs_tick.branch = "step"
  /\ obs_tick.age = kCommandTimeoutMillis
  /\ obs_cmd.admitted_at = U32(Pow16 - 1, Pow16 - 100)
  /\ millis = U32(0, 150)
  /\ obs_cmd.end = "done"

\* C18: while loop() keeps being called and millis() keeps advancing,
\* every admitted command leaves the slot, by completing or by the
\* timeout; and the first tick that finds the command older than 250 ms
\* ends it, so after any tick a command that is still active was at most
\* 250 ms old at that tick.
C18_TickEnds ==
  Loop /\ current_cmd # NULL /\
  clock.uptime - obs_cmd.admitted_up > kCommandTimeoutMillis =>
    current_cmd' = NULL

C18_StillActive ==
  current_cmd # NULL /\ obs_tick.start_cmd # NULL =>
    obs_tick.age <= kCommandTimeoutMillis

C18_CommandLeaves ==
  /\ (current_cmd # NULL) ~> (current_cmd = NULL)
  /\ [] C18_StillActive
  /\ [][C18_TickEnds]_vars

\* A command that never got its bytes has left the slot by the timeout,
\* two clock steps after its admission.
C18_Witness ==
  /\ current_cmd = NULL
  /\ obs_cmd.end = "abort"
  /\ obs_tick.branch = "abort"
  /\ obs_tick.age > kCommandTimeoutMillis + 1
  /\ serial_wire = <<>>
  /\ serial_rx = <<>>

\* C19 as stated: the state computed at a tick is ON when a command is
\* active or a command ended less than 200 ms before the tick, and
\* otherwise follows the blink pattern.
C19_BlinkOn == obs_tick.age % 2048 < 4

C19_OnAfterFinish ==
  obs_tick.branch \in {"idle", "step", "abort"} =>
    obs_tick.led_state =
      IF \/ obs_tick.start_cmd # NULL
         \/ obs_tick.rest >= 0 /\ obs_tick.rest < kLedActiveMillis
      THEN TRUE ELSE C19_BlinkOn

\* C19, amended: the grace window runs from the admission of the last
\* command, not from its end.  The state computed at a tick, before
\* dispatch, is ON when a command is active at the start of the tick or
\* the command timer was set less than 200 ms before the tick; otherwise
\* it is ON during the first 4 ms of every 2048 ms counted from that
\* moment and OFF for the rest.  led.update is called in a tick exactly
\* when the computed state differs from the state last passed to it, with
\* the computed state.
C19_LedState ==
  /\ led = last_led_state
  /\ obs_tick.branch \in {"idle", "step", "abort"} =>
       /\ obs_tick.led_state =
            IF obs_tick.start_cmd # NULL \/ obs_tick.age < kLedActiveMillis
            THEN TRUE ELSE C19_BlinkOn
       /\ led = obs_tick.led_state

C19_LedStep ==
  Loop =>
    /\ obs_tick'.led_update <=> obs_tick'.led_state # led
    /\ led' = obs_tick'.led_state

C19_Indicator == [] C19_LedState /\ [][C19_LedStep]_vars

\* An idle tick right after the tick that completed an ECHO 200 ms after
\* its admission: the indicator is OFF.
C19_Witness ==
  /\ obs_tick.branch = "idle"
  /\ obs_cmd.name = "ECHO"
  /\ obs_cmd.end = "done"
  /\ obs_tick.age = kLedActiveMillis
  /\ obs_tick.rest = 0
  /\ ~obs_tick.led_state
  /\ ~led

\* C20: no tick discards input.  A tick takes from Serial exactly the
\* bytes it reads into data_buffer; the tick that aborts a command takes
\* none, so the aborted command has consumed only what had arrived and
\* been read by then; a SEND rejected with 'E' and a code has consumed its
\* selector and 6 header bytes and no more.  Whatever is or arrives in
\* Serial afterwards is read one byte per idle tick as a selector, and a
\* byte that is a valid selector starts that command.
C20_TickStep ==
  Loop =>
    /\ serial_rx = obs_tick'.read \o serial_rx'
    /\ obs_tick'.branch = "abort" =>
         /\ obs_tick'.read = <<>>
         /\ obs_cmd'.in = obs_cmd.in
         /\ obs_tick'.out = <<>>
    /\ current_cmd = NULL /\ serial_rx # <<>> =>
         /\ obs_tick'.read = <<Head(serial_rx)>>
         /\ obs_tick'.selector = Head(serial_rx)
         /\ Head(serial_rx) = Ch_e => current_cmd' = "ECHO"
         /\ Head(serial_rx) = Ch_i => current_cmd' = "INFO"
         /\ Head(serial_rx) = Ch_a => current_cmd' = "AUX_READ"
         /\ Head(serial_rx) \notin Selectors => current_cmd' = NULL

C20_RejectConsumed ==
  obs_cmd.name = "SEND" /\ obs_cmd.out # <<>> /\ obs_cmd.out[1] = ChE =>
    /\ Len(obs_cmd.in) = 6
    /\ obs_cmd.end = "done"

C20_NoDrain == [] C20_RejectConsumed /\ [][C20_TickStep]_vars

\* The payload byte 'i' of the rejected SEND was read as a selector and
\* INFO has written its response, which no frame of the host asked for.
C20_Witness ==
  /\ obs_cmd.name = "INFO"
  /\ obs_cmd.end = "done"
  /\ Len(obs_cmd.out) = 8
  /\ obs_cmd.out[1] = ChK
  /\ data_buffer = <<Ch_i, 0, 0, 1, 0, 0>>
  /\ serial_wire = <<>>
  /\ serial_rx = <<>>

====
